---- MODULE Spec2Model ----
(***************************************************************************)
(* Soltren: a terminal raycaster.  The model covers the frame buffer       *)
(* (renderer/buffer.rs), the per-column DDA of render_frame (raycaster.rs) *)
(* and the engine loop (engine.rs).                                        *)
(*                                                                         *)
(* Real numbers are modelled exactly as fractions: a position coordinate   *)
(* is an integer count of 1/PosUnit, a vector component an integer count   *)
(* of 1/VecUnit.  f64 rounding is not modelled.                            *)
(***************************************************************************)
EXTENDS Integers, Sequences, FiniteSets, TLC

VARIABLES
    frame_buffer,   \* Engine.frame_buffer: [width, height, buffer, fg_colors, bg_colors]
    stdout,         \* what the last FrameBuffer::render queued on the sink, and its result
    nops,           \* number of mutating frame buffer calls made so far (SpecBuf)
    lastop,         \* the last frame buffer call and its arguments (SpecBuf)
    map,            \* Engine.map: [width, height, cells]
    player,         \* Engine.player: [position, direction, camera_plane]
    pc,             \* where control is, in render_frame (SpecCast)
    col,            \* render_frame: x, the column being cast
    ray,            \* render_frame: the locals of the column being cast
    hits,           \* render_frame: what each finished column hit, in order
    frame_time      \* Engine::run: frame_time of the current iteration (SpecEngine)

bufVars == <<stdout, nops, lastop>>
castVars == <<map, player, pc, col, ray, hits>>
vars == <<frame_buffer, stdout, nops, lastop, map, player, pc, col, ray, hits,
          frame_time>>

----------------------------------------------------------------------------
(* Bounds of the model *)

\* largest terminal width / height tried by the frame buffer specification
MaxW == 2
MaxH == 2
\* number of resize / clear / set calls made in one run of SpecBuf
MaxOps == 3
\* the square maps cast against have 4 .. MaxMap cells a side
MaxMap == 5
\* a coordinate of a position is a multiple of 1 / PosUnit
PosUnit == 2
\* a component of a direction or plane vector is a multiple of 1 / VecUnit
VecUnit == 250
\* the longest move of one key press is MaxMove / PosUnit (SpecEngine)
MaxMove == 2

----------------------------------------------------------------------------
(* crossterm::style::Color, as <<kind, a, b, c>> *)

Reset == <<"Reset", 0, 0, 0>>
White == <<"White", 0, 0, 0>>
AnsiValue(n) == <<"AnsiValue", n, 0, 0>>
Rgb(r, g, b) == <<"Rgb", r, g, b>>

\* the colors the program itself writes (buffer.rs:52,59, engine.rs:132)
CeilingBg == AnsiValue(234)
FloorBg == AnsiValue(238)
FpsBg == AnsiValue(236)

----------------------------------------------------------------------------
(* FrameBuffer (renderer/buffer.rs) *)

\* Vec::resize(size, fill): truncate, or extend with fill; kept elements stay
VecResize(v, size, fill) ==
    [i \in 1..size |-> IF i <= Len(v) THEN v[i] ELSE fill]

\* vec![fill; size]
VecFill(size, fill) == [i \in 1..size |-> fill]

FrameBufferNew(w, h) ==
    LET size == w * h
    IN  [width |-> w, height |-> h,
         buffer |-> VecFill(size, " "),
         fg_colors |-> VecFill(size, Reset),
         bg_colors |-> VecFill(size, Reset)]

\* a resize that forgets the color vectors
ResizeGlyphsOnly(fb, w, h) ==
    IF fb.width = w /\ fb.height = h
    THEN fb
    ELSE [fb EXCEPT !.width = w, !.height = h,
                    !.buffer = VecResize(fb.buffer, w * h, " ")]

Resize(fb, w, h) ==
    IF fb.width = w /\ fb.height = h
    THEN fb
    ELSE LET size == w * h
         IN  [width |-> w, height |-> h,
              buffer |-> VecResize(fb.buffer, size, " "),
              fg_colors |-> VecResize(fb.fg_colors, size, Reset),
              bg_colors |-> VecResize(fb.bg_colors, size, Reset)]

\* the bounds check of FrameBuffer::set
SetXLeqWidth(fb, x, y) == x <= fb.width /\ y < fb.height
InBounds(fb, x, y) == x < fb.width /\ y < fb.height

\* self.buffer[idx] panics when idx is not below the vector's length
SetPanics(fb, x, y) ==
    /\ InBounds(fb, x, y)
    /\ \/ y * fb.width + x >= Len(fb.buffer)
       \/ y * fb.width + x >= Len(fb.fg_colors)
       \/ y * fb.width + x >= Len(fb.bg_colors)

\* x and y are usize: never negative.  Meaningful when ~SetPanics(fb, x, y).
Set(fb, x, y, ch, fg, bg) ==
    IF InBounds(fb, x, y)
    THEN LET idx == y * fb.width + x
         IN  [fb EXCEPT !.buffer[idx + 1] = ch,
                        !.fg_colors[idx + 1] = fg,
                        !.bg_colors[idx + 1] = bg]
    ELSE fb

\* for x in x0..self.width { self.set(x, y, ' ', Color::Reset, bg) }
RECURSIVE ClearRow(_, _, _, _)
ClearRow(fb, y, x, bg) ==
    IF x >= fb.width THEN fb
    ELSE ClearRow(Set(fb, x, y, " ", Reset, bg), y, x + 1, bg)

\* for y in y..yEnd { the row loop }
RECURSIVE ClearRows(_, _, _, _)
ClearRows(fb, y, yEnd, bg) ==
    IF y >= yEnd THEN fb
    ELSE ClearRows(ClearRow(fb, y, 0, bg), y + 1, yEnd, bg)

ClearCeilingOnly(fb) ==
    ClearRows(fb, 0, fb.height \div 2, CeilingBg)

Clear(fb) ==
    LET half_height == fb.height \div 2
        ceiling == ClearRows(fb, 0, half_height, CeilingBg)
    IN  ClearRows(ceiling, half_height, fb.height, FloorBg)

----------------------------------------------------------------------------
(* FrameBuffer::render: the commands queued on the sink, in order *)

Cmd(op, arg) == [op |-> op, arg |-> arg]
Hide == Cmd("Hide", <<"", 0, 0, 0>>)
MoveTo00 == Cmd("MoveTo", <<"", 0, 0, 0>>)
SetForegroundColor(c) == Cmd("SetForegroundColor", c)
SetBackgroundColor(c) == Cmd("SetBackgroundColor", c)
PrintCmd(s) == Cmd("Print", <<s, 0, 0, 0>>)
Flush == Cmd("Flush", <<"", 0, 0, 0>>)

\* the inner loop over x of one row; current_fg / current_bg are threaded through
RECURSIVE RenderRow(_, _, _, _, _)
RenderRow(fb, y, x, current_fg, current_bg) ==
    IF x >= fb.width
    THEN [ops |-> <<>>, fg |-> current_fg, bg |-> current_bg]
    ELSE LET idx == y * fb.width + x
             fg == fb.fg_colors[idx + 1]
             bg == fb.bg_colors[idx + 1]
             ch == fb.buffer[idx + 1]
             fgOps == IF fg # current_fg THEN <<SetForegroundColor(fg)>> ELSE <<>>
             bgOps == IF bg # current_bg THEN <<SetBackgroundColor(bg)>> ELSE <<>>
             rest == RenderRow(fb, y, x + 1, fg, bg)
         IN  [rest EXCEPT !.ops = fgOps \o bgOps \o <<PrintCmd(ch)>> \o rest.ops]

\* what follows a row: nothing after the last one
RowEndNoReset(fb, y) ==
    IF y < fb.height - 1 THEN <<PrintCmd("\r\n")>> ELSE <<>>
RowEnd(fb, y) ==
    IF y < fb.height - 1
    THEN <<SetForegroundColor(Reset), SetBackgroundColor(Reset), PrintCmd("\r\n")>>
    ELSE <<>>

\* the outer loop over y
RECURSIVE RenderRows(_, _, _, _)
RenderRows(fb, y, current_fg, current_bg) ==
    IF y >= fb.height THEN <<>>
    ELSE LET row == RenderRow(fb, y, 0, current_fg, current_bg)
             end == RowEnd(fb, y)
             fg == IF y < fb.height - 1 THEN Reset ELSE row.fg
             bg == IF y < fb.height - 1 THEN Reset ELSE row.bg
         IN  row.ops \o end \o RenderRows(fb, y + 1, fg, bg)

\* every command of a render that meets no failure, the final flush included
RenderOps(fb) ==
    <<Hide, MoveTo00>> \o RenderRows(fb, 0, Reset, Reset) \o <<Flush>>

\* render with the sink failing at its failAt-th command (0: the sink never
\* fails).  `?` returns at the first failure: nothing later is queued.
Render(fb, failAt) ==
    LET ops == RenderOps(fb)
    IN  IF failAt = 0 \/ failAt > Len(ops)
        THEN [ops |-> ops, result |-> "Ok"]
        ELSE [ops |-> SubSeq(ops, 1, failAt - 1), result |-> "Err"]

IsColorCmd(c) == c.op \in {"SetForegroundColor", "SetBackgroundColor"}
CountWhere(s, op) == Cardinality({i \in 1..Len(s) : s[i].op = op})
ColorDirectives(s) == Cardinality({i \in 1..Len(s) : IsColorCmd(s[i])})

----------------------------------------------------------------------------
(* Map and Material (crate::map), Vector2D (math.rs), Player (player.rs) *)

Materials == {"Empty", "SolidWall", "BrickWall", "StoneWall", "WoodWall", "OutOfBounds"}

\* Map::get(x, y) for usize x and y: the cell's material, and OutOfBounds for
\* every coordinate outside the grid's extent
MapGet(m, x, y) ==
    IF x < m.width /\ y < m.height THEN m.cells[x][y] ELSE "OutOfBounds"

\* a square grid of n cells a side: `border` on its outer ring, Empty inside,
\* and `inner` at the cells of `at`
GridMap(n, border, at, inner) ==
    [width |-> n, height |-> n,
     cells |-> [x \in 0..(n - 1) |-> [y \in 0..(n - 1) |->
                  IF <<x, y>> \in at THEN inner
                  ELSE IF x \in {0, n - 1} \/ y \in {0, n - 1} THEN border
                  ELSE "Empty"]]]

NoMap == GridMap(1, "SolidWall", {}, "Empty")

Vec(x, y) == [x |-> x, y |-> y]

\* Vector2D::rotate by the angle whose cosine is c / d and whose sine is s / d
Rotate(v, c, s, d) ==
    Vec((v.x * c - v.y * s) \div d, (v.x * s + v.y * c) \div d)

\* Player::new, its position put at (px, py) / PosUnit
PlayerAt(px, py) ==
    [position |-> Vec(px, py),
     direction |-> Vec(-VecUnit, 0),
     camera_plane |-> Vec(0, (66 * VecUnit) \div 100)]

PlayerNew == PlayerAt(22 * PosUnit, 12 * PosUnit)

\* Player::rotate
PlayerRotate(p, c, s, d) ==
    [p EXCEPT !.direction = Rotate(p.direction, c, s, d),
              !.camera_plane = Rotate(p.camera_plane, c, s, d)]

\* n / d truncated toward zero, for d > 0: integer division of i32, and the
\* cast of an f64 in the range of i32 to i32
Trunc(n, d) == IF n >= 0 THEN n \div d ELSE (n + (d - 1)) \div d

Abs(n) == IF n < 0 THEN -n ELSE n

----------------------------------------------------------------------------
(* render_frame (raycaster.rs): one column *)

\* ray_dir = direction + camera_plane * camera_x, camera_x = 2x/w - 1, as
\* numerators over VecUnit * w
RayDirNoCameraSpace(p, x, w) ==
    Vec(p.direction.x * w + p.camera_plane.x * x * w,
        p.direction.y * w + p.camera_plane.y * x * w)
RayDir(p, x, w) ==
    Vec(p.direction.x * w + p.camera_plane.x * (2 * x - w),
        p.direction.y * w + p.camera_plane.y * (2 * x - w))

\* The locals of a column before its DDA loop (lines 15-53).  side_dist_x is
\* kept as the number sx of 1/PosUnit with side_dist_x = (sx / PosUnit) *
\* delta_dist_x, where delta_dist_x = |1 / ray_dir.x| or f64::MAX.
ColumnInit(p, x, w) ==
    LET rd == RayDir(p, x, w)
        mx == Trunc(p.position.x, PosUnit)
        my == Trunc(p.position.y, PosUnit)
    IN  [ray_dir |-> rd,
         den |-> VecUnit * w,
         map_x |-> mx,
         map_y |-> my,
         step_x |-> IF rd.x < 0 THEN -1 ELSE 1,
         step_y |-> IF rd.y < 0 THEN -1 ELSE 1,
         side_dist_x |-> IF rd.x < 0 THEN p.position.x - mx * PosUnit
                         ELSE (mx + 1) * PosUnit - p.position.x,
         side_dist_y |-> IF rd.y < 0 THEN p.position.y - my * PosUnit
                         ELSE (my + 1) * PosUnit - p.position.y,
         hit |-> FALSE,
         side |-> 0,
         hit_material |-> "Empty",
         steps |-> 0]

NoRay == ColumnInit(PlayerNew, 0, 1)

\* side_dist_x < side_dist_y, for r.ray_dir # (0, 0).  A zero component has
\* delta_dist = f64::MAX and a side_dist of at least MAX / PosUnit, which no
\* side_dist of the other axis reaches within a map of the model.
SideDistLessZeroDelta(r) ==
    CASE r.ray_dir.x # 0 /\ r.ray_dir.y # 0 ->
            r.side_dist_x * Abs(r.ray_dir.y) < r.side_dist_y * Abs(r.ray_dir.x)
      [] r.ray_dir.x = 0 /\ r.ray_dir.y # 0 -> r.side_dist_y > 0
      [] r.ray_dir.x # 0 /\ r.ray_dir.y = 0 -> FALSE
SideDistLess(r) ==
    CASE r.ray_dir.x # 0 /\ r.ray_dir.y # 0 ->
            r.side_dist_x * Abs(r.ray_dir.y) < r.side_dist_y * Abs(r.ray_dir.x)
      [] r.ray_dir.x = 0 /\ r.ray_dir.y # 0 -> r.side_dist_x = 0 /\ r.side_dist_y > 0
      [] r.ray_dir.x # 0 /\ r.ray_dir.y = 0 -> r.side_dist_y > 0

\* map.get(map_x as usize, map_y as usize): a negative i32 cast to usize is
\* at least 2^64 - 2^31, outside every extent
GetAt(m, ix, iy) ==
    IF ix < 0 \/ iy < 0 THEN "OutOfBounds" ELSE MapGet(m, ix, iy)

\* hit_material != Material::Empty
StopsOnlyAtWalls(material) == material \notin {"Empty", "OutOfBounds"}
Stops(material) == material # "Empty"

\* one iteration of `while !hit` (lines 57-72)
DDAStep(m, r) ==
    LET moved == IF SideDistLess(r)
                 THEN [r EXCEPT !.side_dist_x = @ + PosUnit,
                                !.map_x = @ + r.step_x,
                                !.side = 0]
                 ELSE [r EXCEPT !.side_dist_y = @ + PosUnit,
                                !.map_y = @ + r.step_y,
                                !.side = 1]
        material == GetAt(m, moved.map_x, moved.map_y)
    IN  [moved EXCEPT !.hit_material = material,
                      !.hit = Stops(material),
                      !.steps = @ + 1]

\* a fraction num / den with den > 0, in lowest terms when it is one; den = 0
\* stands for a value that is not finite (a division by a zero ray component)
RECURSIVE Gcd(_, _)
Gcd(a, b) == IF b = 0 THEN a ELSE Gcd(b, a % b)
\* neg is the sign bit of the f64 quotient: it tells -0.0 from 0.0
Frac(n, d) ==
    IF d = 0 THEN [num |-> n, den |-> 0, neg |-> n < 0]
    ELSE LET g == Gcd(Abs(n), Abs(d))
             sg == IF d < 0 THEN -1 ELSE 1
         IN  [num |-> sg * (n \div g), den |-> sg * (d \div g),
              neg |-> IF n = 0 THEN d < 0 ELSE (n < 0) # (d < 0)]

\* perp_wall_dist (lines 76-80), with the position as p.position / PosUnit
\* and the ray as r.ray_dir / r.den
PerpWallDistNoSide(p, r) ==
    Frac((r.map_x * PosUnit - p.position.x
            + ((1 - r.step_x) \div 2) * PosUnit) * r.den,
         PosUnit * r.ray_dir.x)
PerpWallDist(p, r) ==
    IF r.side = 0
    THEN Frac((r.map_x * PosUnit - p.position.x
                 + ((1 - r.step_x) \div 2) * PosUnit) * r.den,
              PosUnit * r.ray_dir.x)
    ELSE Frac((r.map_y * PosUnit - p.position.y
                 + ((1 - r.step_y) \div 2) * PosUnit) * r.den,
              PosUnit * r.ray_dir.y)

----------------------------------------------------------------------------
(* render_frame: the stripe of one column (lines 82-130) *)

I32Min == -2147483647 - 1
I32Max == -(I32Min + 1)

\* (screen_height / perp_wall_dist) as i32: the cast saturates and takes NaN
\* to 0
LineHeight(h, perp) ==
    IF perp.den = 0 THEN 0
    ELSE IF perp.num = 0
         THEN IF h = 0 THEN 0 ELSE IF perp.neg THEN I32Min ELSE I32Max
         ELSE Trunc(h * perp.den, perp.num)

\* -line_height overflows for i32::MIN: a panic where overflow is checked
NegOverflows(line_height) == line_height = I32Min

\* the span drawn; the negation wraps where overflow is not checked
DrawSpan(h, line_height) ==
    LET negated == IF line_height = I32Min THEN I32Min ELSE -line_height
        start == Trunc(negated, 2) + h \div 2
        end == Trunc(line_height, 2) + h \div 2
    IN  [draw_start |-> IF start < 0 THEN 0 ELSE start,
         draw_end |-> IF end >= h THEN h - 1 ELSE end]

BaseColor(material) ==
    CASE material = "SolidWall" -> <<180, 0, 0>>
      [] material = "BrickWall" -> <<0, 180, 0>>
      [] material = "StoneWall" -> <<0, 0, 180>>
      [] material = "WoodWall" -> <<180, 180, 180>>
      [] material = "OutOfBounds" -> <<50, 50, 50>>
      [] material = "Empty" -> <<0, 0, 0>>

\* (1.0 - perp_wall_dist / 20.0).max(0.1), as a fraction; f64::max takes NaN
\* to 0.1
DistDim(perp) ==
    IF perp.den = 0 THEN [num |-> 1, den |-> 10]
    ELSE IF 10 * (20 * perp.den - perp.num) < 20 * perp.den
         THEN [num |-> 1, den |-> 10]
         ELSE [num |-> 20 * perp.den - perp.num, den |-> 20 * perp.den]

\* (c as f64 * final_dim) as u8, final_dim = dim_factor * dist_dim with
\* dim_factor 0.7 for side 1 and 1.0 for side 0
Channel(c, side, perp) ==
    LET dim_factor == IF side = 1 THEN 7 ELSE 10
        dd == DistDim(perp)
    IN  (c * dim_factor * dd.num) \div (10 * dd.den)

WallColor(material, side, perp) ==
    LET base == BaseColor(material)
    IN  Rgb(Channel(base[1], side, perp), Channel(base[2], side, perp),
            Channel(base[3], side, perp))

\* the glyph by distance band; every comparison with NaN is false
WallGlyph(perp) ==
    IF perp.den = 0 THEN "LIGHT"
    ELSE IF perp.num <= 2 * perp.den THEN "FULL"
    ELSE IF perp.num <= 4 * perp.den THEN "DARK"
    ELSE IF perp.num <= 8 * perp.den THEN "MEDIUM"
    ELSE "LIGHT"

\* for y in y..draw_end { frame.set(x, y as usize, ch, color, Color::Reset) }
RECURSIVE Stripe(_, _, _, _, _, _)
Stripe(fb, x, y, draw_end, ch, color) ==
    IF y >= draw_end THEN fb
    ELSE Stripe(Set(fb, x, y, ch, color, Reset), x, y + 1, draw_end, ch, color)

\* lines 75-130 for a column whose DDA loop has ended
DrawColumn(fb, p, r, x) ==
    LET perp == PerpWallDist(p, r)
        span == DrawSpan(fb.height, LineHeight(fb.height, perp))
    IN  Stripe(fb, x, span.draw_start, span.draw_end, WallGlyph(perp),
               WallColor(r.hit_material, r.side, perp))

\* what a column reports: the ray hit result of spec section 3
HitResult(p, r) ==
    [perp |-> PerpWallDist(p, r), material |-> r.hit_material, side |-> r.side]

----------------------------------------------------------------------------
(* render_frame as a whole (raycaster.rs:9-132) *)

\* while !hit { .. }
RECURSIVE DDALoop(_, _)
DDALoop(m, r) == IF r.hit THEN r ELSE DDALoop(m, DDAStep(m, r))

\* for x in x..screen_width { .. }
RECURSIVE RenderColumns(_, _, _, _)
RenderColumns(fb, p, m, x) ==
    IF x >= fb.width THEN fb
    ELSE RenderColumns(
            DrawColumn(fb, p, DDALoop(m, ColumnInit(p, x, fb.width)), x),
            p, m, x + 1)

RenderFrame(fb, p, m) == RenderColumns(fb, p, m, 0)

\* some column's -line_height overflows
FrameOverflows(fb, p, m) ==
    \E x \in 0..(fb.width - 1) :
        NegOverflows(LineHeight(fb.height,
            PerpWallDist(p, DDALoop(m, ColumnInit(p, x, fb.width)))))

----------------------------------------------------------------------------
(* Engine (engine.rs) *)

MoveSpeed == 5
RotSpeed == 3

\* frame_time, by what the handlers make of it: `move` is move_speed *
\* frame_time in 1/PosUnit, `turn` tells that rot_speed * frame_time is a
\* quarter turn, and `fps` is 1 / frame_time as {:.0} prints it.
ZeroTime == [move |-> 0, turn |-> FALSE, fps |-> 0]

\* n / d rounded to an integer, ties to even, as {:.0} does
RoundHalfEven(n, d) ==
    LET q == n \div d
        r2 == 2 * (n % d)
    IN  IF r2 < d THEN q
        ELSE IF r2 > d THEN q + 1
        ELSE IF q % 2 = 0 THEN q ELSE q + 1

\* frame_time = k / (MoveSpeed * PosUnit): a move of k / PosUnit
MoveTime(k) ==
    [move |-> k, turn |-> FALSE, fps |-> RoundHalfEven(MoveSpeed * PosUnit, k)]

\* frame_time = pi / (2 * RotSpeed): 1 / frame_time = 1.9098..
TurnTime == [move |-> 0, turn |-> TRUE, fps |-> 2]

FrameTimes == {ZeroTime, TurnTime} \cup {MoveTime(k) : k \in 1..MaxMove}

\* the keys handle_input tells apart
KeyCodes == {"Esc", "q", "w", "Up", "s", "Down", "Right", "d", "Left", "a", "x"}
\* the keys whose effect the model computes exactly for frame time ft: a move
\* needs an exact distance, a rotation an exact angle
Exact(key, ft) ==
    /\ key \in {"w", "Up", "s", "Down"} => ~ft.turn
    /\ key \in {"Right", "d", "Left", "a"} => ft.move = 0

\* f64 as usize of n / PosUnit: truncated, and 0 for a negative value
AsUsize(n) == IF n < 0 THEN 0 ELSE n \div PosUnit

\* the two guarded moves of a movement key; sign is 1 forward, -1 backward
Move(p, m, ft, sign) ==
    LET new_x == p.position.x + sign * ((p.direction.x * ft.move) \div VecUnit)
        p1 == IF MapGet(m, AsUsize(new_x), AsUsize(p.position.y)) = "Empty"
              THEN [p EXCEPT !.position.x = new_x] ELSE p
        new_y == p1.position.y + sign * ((p.direction.y * ft.move) \div VecUnit)
    IN  IF MapGet(m, AsUsize(p1.position.x), AsUsize(new_y)) = "Empty"
        THEN [p1 EXCEPT !.position.y = new_y] ELSE p1

\* Engine::handle_input: the player after the key, and whether to go on
HandleInput(p, m, key, ft) ==
    CASE key \in {"Esc", "q"} -> [player |-> p, go |-> FALSE]
      [] key \in {"w", "Up"} -> [player |-> Move(p, m, ft, 1), go |-> TRUE]
      [] key \in {"s", "Down"} -> [player |-> Move(p, m, ft, -1), go |-> TRUE]
      [] key \in {"Right", "d"} ->
            [player |-> IF ft.turn THEN PlayerRotate(p, 0, -1, 1) ELSE p, go |-> TRUE]
      [] key \in {"Left", "a"} ->
            [player |-> IF ft.turn THEN PlayerRotate(p, 0, 1, 1) ELSE p, go |-> TRUE]
      [] OTHER -> [player |-> p, go |-> TRUE]

\* the decimal digits of n >= 0
RECURSIVE Digits(_)
Digits(n) ==
    LET d == <<"0", "1", "2", "3", "4", "5", "6", "7", "8", "9">>[(n % 10) + 1]
    IN  IF n < 10 THEN <<d>> ELSE Append(Digits(n \div 10), d)

\* format!(" FPS: {:.0} ", fps)
FpsStr(ft) == <<" ", "F", "P", "S", ":", " ">> \o Digits(ft.fps) \o <<" ">>

\* for ch in fps_str.chars() { set(x_offset, 0, ch, White, AnsiValue(236)) }
RECURSIVE DrawChars(_, _, _)
DrawChars(fb, str, x_offset) ==
    IF str = <<>> THEN fb
    ELSE DrawChars(Set(fb, x_offset, 0, Head(str), White, FpsBg),
                   Tail(str), x_offset + 1)

\* Engine::draw_fps_counter
DrawFpsCounter(fb, ft) == DrawChars(fb, FpsStr(ft), 0)

\* Map::new: a 24 x 24 grid walled by SolidWall, its inside BrickWall but
\* for the cells of a room around the player's start (22, 12)
RoomCells == {<<x, y>> \in (21..22) \X (11..12) : TRUE}
EngineMap ==
    GridMap(24, "SolidWall",
            {<<x, y>> \in (1..22) \X (1..22) : <<x, y>> \notin RoomCells},
            "BrickWall")

\* where run goes after the input loop, and after render returned `result`
AfterInputSkipClear == "raycast"
AfterInput == "clear"
AfterRenderIgnoreErr(result) == "size"
AfterRender(result) == IF result = "Err" THEN "failed" ELSE "size"

----------------------------------------------------------------------------
(* SpecBuf: a frame buffer under arbitrary calls *)

Widths == 0..MaxW
Heights == 0..MaxH
\* (glyph, fg, bg) triples passed to set: the FPS overlay's and a wall stripe's
Pens == {<<"F", White, FpsBg>>, <<"FULL", Rgb(180, 0, 0), Reset>>}

NoOutput == [ops |-> <<>>, result |-> "None"]
NoCall == [op |-> "new", prev |-> "new", x |-> 0, y |-> 0, pen |-> <<" ", Reset, Reset>>]
Call(op, x, y, pen) == [op |-> op, prev |-> lastop.op, x |-> x, y |-> y, pen |-> pen]

\* a panic ends the program
Running == lastop.op # "panic"

BufInit ==
    /\ \E w \in Widths, h \in Heights : frame_buffer = FrameBufferNew(w, h)
    /\ stdout = NoOutput
    /\ nops = 0
    /\ lastop = NoCall
    /\ map = NoMap
    /\ player = PlayerNew
    /\ pc = "idle"
    /\ col = 0
    /\ ray = NoRay
    /\ hits = <<>>
    /\ frame_time = ZeroTime

BufResize(w, h) ==
    /\ Running
    /\ UNCHANGED <<castVars, frame_time>>
    /\ nops < MaxOps
    /\ frame_buffer' = Resize(frame_buffer, w, h)
    /\ nops' = nops + 1
    /\ lastop' = Call("resize", w, h, NoCall.pen)
    /\ stdout' = NoOutput

BufClear ==
    /\ Running
    /\ UNCHANGED <<castVars, frame_time>>
    /\ nops < MaxOps
    /\ frame_buffer' = Clear(frame_buffer)
    /\ nops' = nops + 1
    /\ lastop' = Call("clear", 0, 0, NoCall.pen)
    /\ stdout' = NoOutput

BufSet(x, y, pen) ==
    /\ Running
    /\ UNCHANGED <<castVars, frame_time>>
    /\ nops < MaxOps
    /\ IF SetPanics(frame_buffer, x, y)
       THEN /\ lastop' = Call("panic", x, y, pen)
            /\ UNCHANGED frame_buffer
       ELSE /\ lastop' = Call("set", x, y, pen)
            /\ frame_buffer' = Set(frame_buffer, x, y, pen[1], pen[2], pen[3])
    /\ nops' = nops + 1
    /\ stdout' = NoOutput

\* render on a sink that accepts every command (SpecEngine makes the sink fail)
BufRender ==
    /\ Running
    /\ lastop.op # "render"
    /\ stdout' = Render(frame_buffer, 0)
    /\ lastop' = Call("render", 0, 0, NoCall.pen)
    /\ UNCHANGED <<frame_buffer, nops>>
    /\ UNCHANGED <<castVars, frame_time>>

BufNext ==
    \/ \E w \in Widths, h \in Heights : BufResize(w, h)
    \/ BufClear
    \/ \E x \in Widths, y \in Heights, pen \in Pens : BufSet(x, y, pen)
    \/ BufRender

SpecBuf == BufInit /\ [][BufNext]_vars

----------------------------------------------------------------------------
(* Claims about the frame buffer, checked under SpecBuf *)

\* the cell at (x, y), for x < width and y < height
Cell(fb, x, y) ==
    LET i == y * fb.width + x + 1
    IN  <<fb.buffer[i], fb.fg_colors[i], fb.bg_colors[i]>>

Xs(fb) == 0..(fb.width - 1)
Ys(fb) == 0..(fb.height - 1)

\* every cell has the same foreground and the same background
Uniform(fb) ==
    \A i, j \in 1..Len(fb.buffer) :
        fb.fg_colors[i] = fb.fg_colors[j] /\ fb.bg_colors[i] = fb.bg_colors[j]

Rendered == lastop.op = "render" /\ stdout.result = "Ok"
RenderedUniform ==
    /\ Rendered
    /\ frame_buffer.width >= 1 /\ frame_buffer.height >= 1
    /\ Uniform(frame_buffer)

C4_SetFrame ==
    [][lastop'.op \in {"set", "panic"} =>
          LET x == lastop'.x
              y == lastop'.y
              pen == lastop'.pen
          IN  /\ lastop'.op # "panic"
              /\ frame_buffer'.width = frame_buffer.width
              /\ frame_buffer'.height = frame_buffer.height
              /\ IF x >= frame_buffer.width \/ y >= frame_buffer.height
                 THEN frame_buffer' = frame_buffer
                 ELSE /\ Cell(frame_buffer', x, y) = pen
                      /\ \A cx \in Xs(frame_buffer), cy \in Ys(frame_buffer) :
                            <<cx, cy>> # <<x, y>> =>
                               Cell(frame_buffer', cx, cy) = Cell(frame_buffer, cx, cy)
                      /\ Len(frame_buffer'.buffer) = Len(frame_buffer.buffer)
                      /\ Len(frame_buffer'.fg_colors) = Len(frame_buffer.fg_colors)
                      /\ Len(frame_buffer'.bg_colors) = Len(frame_buffer.bg_colors)
      ]_vars

\* a set with x = width on a buffer of two rows, whose next row keeps its cell
C4_Witness ==
    /\ lastop.op = "set"
    /\ lastop.x = frame_buffer.width
    /\ lastop.y + 1 < frame_buffer.height
    /\ frame_buffer.width >= 1
    /\ Cell(frame_buffer, 0, lastop.y + 1) # lastop.pen

\* C5: after new and any resize, clear and set calls the three vectors have
\* length width * height.
C5_Lengths ==
    /\ Len(frame_buffer.buffer) = frame_buffer.width * frame_buffer.height
    /\ Len(frame_buffer.fg_colors) = frame_buffer.width * frame_buffer.height
    /\ Len(frame_buffer.bg_colors) = frame_buffer.width * frame_buffer.height

\* a resize that changed the size, after another call, followed by one more
C5_Witness ==
    /\ nops = MaxOps
    /\ lastop.prev = "resize"
    /\ lastop.op = "set"
    /\ Len(frame_buffer.buffer) = 4
    /\ frame_buffer.buffer[4] # " "

\* a buffer just cleared for its own size
Cleared(fb) ==
    \A x \in Xs(fb), y \in Ys(fb) :
        Cell(fb, x, y) =
            <<" ", Reset, IF y < fb.height \div 2 THEN CeilingBg ELSE FloorBg>>

\* every cell of fb within bounds takes a write by set
Writable(fb) ==
    \A x \in Xs(fb), y \in Ys(fb), pen \in Pens :
        /\ ~SetPanics(fb, x, y)
        /\ Cell(Set(fb, x, y, pen[1], pen[2], pen[3]), x, y) = pen

\* C7: resize(w, h) followed by clear() leaves every cell (x, y), x < w and
\* y < h, blank with the default foreground and the ceiling background when
\* y < h / 2, the floor background otherwise, and writable by set.
C7_ResizeThenClear ==
    [][(lastop.op = "resize" /\ lastop'.op = "clear") =>
          /\ frame_buffer'.width = lastop.x
          /\ frame_buffer'.height = lastop.y
          /\ Cleared(frame_buffer')
          /\ Writable(frame_buffer')
      ]_vars

\* content written by set, then a resize to another size, then the clear
C7_Witness ==
    /\ lastop.op = "clear"
    /\ lastop.prev = "resize"
    /\ nops = 3
    /\ frame_buffer.width >= 2
    /\ frame_buffer.height >= 2
    /\ Cleared(frame_buffer)

----------------------------------------------------------------------------
(* SpecCast: render_frame on a camera in an Empty cell of a map *)

CastWidths == {2, 8}
CastHeights == {6}

\* maps of 4 .. MaxMap cells a side, walled by SolidWall or open to the
\* outside, with no inner wall or one BrickWall cell
CastMaps ==
    {GridMap(n, border, at, "BrickWall") :
        n \in 4..MaxMap, border \in {"SolidWall", "Empty"},
        at \in {{}, {<<1, 1>>}, {<<2, 1>>}}}

\* Player::new turned by k quarter turns, then by the angle of cosine 3/5
\* when `more`
Oriented(p, k, more) ==
    LET q == IF k = 0 THEN p
             ELSE IF k = 1 THEN PlayerRotate(p, 0, 1, 1)
             ELSE IF k = 2 THEN PlayerRotate(p, -1, 0, 1)
             ELSE PlayerRotate(p, 0, -1, 1)
    IN  IF more THEN PlayerRotate(q, 3, 4, 5) ELSE q

\* the cell a position lies in
CellOf(m, p) ==
    GetAt(m, Trunc(p.position.x, PosUnit), Trunc(p.position.y, PosUnit))

CastPlayers(m) ==
    {Oriented(PlayerAt(px, py), k, more) :
        px \in {x \in 0..(m.width * PosUnit - 1) :
                  \E y \in 0..(m.height - 1) : m.cells[x \div PosUnit][y] = "Empty"},
        py \in 0..(m.height * PosUnit - 1),
        k \in 0..3, more \in BOOLEAN}

CastInit ==
    /\ map \in CastMaps
    /\ player \in {p \in CastPlayers(map) : CellOf(map, p) = "Empty"}
    /\ \E w \in CastWidths, h \in CastHeights :
          frame_buffer = Clear(FrameBufferNew(w, h))
    /\ pc = "for"
    /\ col = 0
    /\ ray = NoRay
    /\ hits = <<>>
    /\ frame_time = ZeroTime
    /\ stdout = NoOutput
    /\ nops = 0
    /\ lastop = NoCall

\* for x in 0..screen_width: the next column's locals, or the return
CastColumn ==
    /\ pc = "for"
    /\ IF col < frame_buffer.width
       THEN /\ ray' = ColumnInit(player, col, frame_buffer.width)
            /\ pc' = "dda"
       ELSE /\ pc' = "done"
            /\ UNCHANGED ray
    /\ UNCHANGED <<frame_buffer, map, player, col, hits, bufVars, frame_time>>

\* one iteration of the DDA loop
CastStep ==
    /\ pc = "dda"
    /\ ~ray.hit
    /\ ray' = DDAStep(map, ray)
    /\ UNCHANGED <<frame_buffer, map, player, pc, col, hits, bufVars, frame_time>>

\* the loop has ended: distance, stripe, next column
CastDraw ==
    /\ pc = "dda"
    /\ ray.hit
    /\ hits' = Append(hits, HitResult(player, ray))
    /\ \/ /\ frame_buffer' = DrawColumn(frame_buffer, player, ray, col)
          /\ col' = col + 1
          /\ pc' = "for"
       \/ /\ NegOverflows(LineHeight(frame_buffer.height, PerpWallDist(player, ray)))
          /\ pc' = "panic"
          /\ UNCHANGED <<frame_buffer, col>>
    /\ UNCHANGED <<map, player, ray, bufVars, frame_time>>

CastNext == CastColumn \/ CastStep \/ CastDraw

SpecCast == CastInit /\ [][CastNext]_vars

----------------------------------------------------------------------------
(* Claims about render_frame, checked under SpecCast *)

\* the DDA loop of the current column has ended
ColumnHit == pc = "dda" /\ ray.hit

\* C1: from a camera inside a finite grid whose outside is the opaque
\* OutOfBounds, for a ray with a nonzero component, the DDA loop ends after
\* finitely many iterations (never more than the grid's width plus its
\* height) and the material it ends on is not Empty.
C1_DDATerminates ==
    /\ pc = "dda" =>
          /\ ray.ray_dir # Vec(0, 0)
          /\ ray.steps <= map.width + map.height
          /\ ray.hit => ray.steps >= 1 /\ ray.hit_material # "Empty"
    /\ \A i \in 1..Len(hits) : hits[i].material # "Empty"

\* a ray that crossed Empty border cells and ended on OutOfBounds
C1_Witness ==
    /\ ColumnHit
    /\ ray.hit_material = "OutOfBounds"
    /\ ray.steps >= 3
    /\ ray.ray_dir.x # 0 /\ ray.ray_dir.y # 0

\* C2: the perpendicular wall distance computed after the DDA loop is
\* strictly positive and finite, also for a camera exactly on a grid line
\* with an opaque cell next to it in the ray's stepping direction.
C2_PerpPositive ==
    ColumnHit =>
        LET perp == PerpWallDist(player, ray)
        IN  perp.den > 0 /\ perp.num > 0

\* the first row past my0 whose cell in column mx is not Empty
FirstWallY(m, mx, my0) ==
    CHOOSE y \in (my0 + 1)..m.height :
        /\ GetAt(m, mx, y) # "Empty"
        /\ \A y2 \in (my0 + 1)..(y - 1) : GetAt(m, mx, y2) = "Empty"

\* the ray of the current column is exactly (0, 1)
AlongY == pc = "dda" /\ ray.ray_dir = Vec(0, ray.den)

\* C8: for the ray (0, 1) the DDA never advances the x grid coordinate, the
\* hit has side = 1, and the perpendicular distance is exactly the distance
\* along y from the camera to the near face of the first non-Empty cell (so
\* 3.0 when that face is 3 units away).
C8_AxisAligned ==
    AlongY =>
        LET mx0 == Trunc(player.position.x, PosUnit)
            my0 == Trunc(player.position.y, PosUnit)
            face == FirstWallY(map, mx0, my0)
            perp == PerpWallDist(player, ray)
        IN  /\ ray.map_x = mx0
            /\ ray.hit =>
                  /\ ray.side = 1
                  /\ ray.map_y = face
                  /\ perp.den > 0
                  /\ perp.num * PosUnit = (face * PosUnit - player.position.y) * perp.den
                  /\ (face * PosUnit - player.position.y = 3 * PosUnit) =>
                        (perp.num = 3 /\ perp.den = 1)

\* the ray (0, 1) from y = 1.0 onto a SolidWall whose near face is at y = 4.0
C8_Witness ==
    /\ AlongY
    /\ ray.hit
    /\ ray.hit_material = "SolidWall"
    /\ player.position.y = PosUnit
    /\ ray.map_y = 4
    /\ PerpWallDist(player, ray).num = 3
    /\ PerpWallDist(player, ray).den = 1

\* the scenario of C9, its eight columns cast
BorderedRoom == GridMap(4, "SolidWall", {}, "BrickWall")
RoomCast ==
    /\ pc = "done"
    /\ map = BorderedRoom
    /\ player = PlayerAt(2 * PosUnit, 2 * PosUnit)
    /\ frame_buffer.width = 8

\* |d - 1| <= |e - 1| for fractions d and e with positive denominators
NoFartherFromOne(d, e) ==
    Abs(d.num - d.den) * e.den <= Abs(e.num - e.den) * d.den

SameDist(d, e) == d.den > 0 /\ e.den > 0 /\ d.num * e.den = e.num * d.den

\* C9: in the 4x4 room walled by SolidWall, from (2, 2) facing (-1, 0) with
\* plane (0, 0.66) and 8 columns, every column hits SolidWall, the
\* distances are symmetric around the two central columns, and those two
\* are the closest to 1.0 (they are 1.0).
C9_Room ==
    RoomCast =>
        /\ Len(hits) = 8
        /\ \A i \in 1..8 : hits[i].material = "SolidWall"
        /\ \A i \in 1..4 : SameDist(hits[i].perp, hits[9 - i].perp)
        /\ \A i \in 1..8 : /\ NoFartherFromOne(hits[4].perp, hits[i].perp)
                           /\ NoFartherFromOne(hits[5].perp, hits[i].perp)
        /\ hits[4].perp.num = hits[4].perp.den
        /\ hits[5].perp.num = hits[5].perp.den

C9_Witness ==
    /\ RoomCast
    /\ Len(hits) = 8
    /\ hits[1].side = 0
    /\ hits[8].material = "SolidWall"

----------------------------------------------------------------------------
(* SpecEngine: Engine::run.  pc is the step the loop is about to take:      *)
(* "size" (the top of the loop), "poll", "clear", "raycast", "fps",         *)
(* "render"; or how run ended: "exited" (Ok), "failed" (Err), "panic".      *)

\* the sizes terminal::size() reports: narrower than the FPS text, and tall
\* enough, at three rows, for a wall stripe to show below it
Cols == {1, 2}
Rows == {1, 3}

\* Engine::init
EngineInit ==
    /\ map = EngineMap
    /\ player = PlayerNew
    /\ \E cols \in Cols, rows \in Rows : frame_buffer = FrameBufferNew(cols, rows)
    /\ pc = "size"
    /\ frame_time = ZeroTime
    /\ stdout = NoOutput
    /\ col = 0
    /\ ray = NoRay
    /\ hits = <<>>
    /\ nops = 0
    /\ lastop = NoCall

engineRest == <<nops, lastop, map, col, ray, hits>>

\* lines 39-45: the frame time, terminal::size()? and the resize
LoopTop ==
    /\ pc = "size"
    /\ \E ft \in FrameTimes : frame_time' = ft
    /\ \/ \E cols \in Cols, rows \in Rows :
             /\ frame_buffer' = Resize(frame_buffer, cols, rows)
             /\ pc' = "poll"
       \/ /\ pc' = "failed"
          /\ UNCHANGED frame_buffer
    /\ UNCHANGED <<player, stdout, engineRest>>

\* lines 49-57: one turn of the input loop
Poll ==
    /\ pc = "poll"
    /\ \/ \* poll fails, or read fails
          /\ pc' = "failed"
          /\ UNCHANGED player
       \/ \* nothing is pending
          /\ pc' = AfterInput
          /\ UNCHANGED player
       \/ \* a key event
          \E key \in KeyCodes :
             /\ Exact(key, frame_time)
             /\ LET r == HandleInput(player, map, key, frame_time)
                IN  /\ player' = r.player
                    /\ pc' \in IF r.go THEN {"poll"} ELSE {"exited", "failed"}
    /\ UNCHANGED <<frame_buffer, stdout, frame_time, engineRest>>

\* line 60
ClearStep ==
    /\ pc = "clear"
    /\ frame_buffer' = Clear(frame_buffer)
    /\ pc' = "raycast"
    /\ UNCHANGED <<player, stdout, frame_time, engineRest>>

\* line 63
Raycast ==
    /\ pc = "raycast"
    /\ \/ /\ frame_buffer' = RenderFrame(frame_buffer, player, map)
          /\ pc' = "fps"
       \/ /\ FrameOverflows(frame_buffer, player, map)
          /\ pc' = "panic"
          /\ UNCHANGED frame_buffer
    /\ UNCHANGED <<player, stdout, frame_time, engineRest>>

\* line 66
FpsOverlay ==
    /\ pc = "fps"
    /\ frame_buffer' = DrawFpsCounter(frame_buffer, frame_time)
    /\ pc' = "render"
    /\ UNCHANGED <<player, stdout, frame_time, engineRest>>

\* lines 69-76: render(..)? and the sleep to the end of the frame's budget
Flushing ==
    /\ pc = "render"
    /\ \E failAt \in 0..Len(RenderOps(frame_buffer)) :
          /\ stdout' = Render(frame_buffer, failAt)
          /\ pc' = AfterRender(stdout'.result)
    /\ UNCHANGED <<frame_buffer, player, frame_time, engineRest>>

EngineNext ==
    LoopTop \/ Poll \/ ClearStep \/ Raycast \/ FpsOverlay \/ Flushing

SpecEngine == EngineInit /\ [][EngineNext]_vars

----------------------------------------------------------------------------
(* Claims about Engine::run, checked under SpecEngine *)

\* C6: when a write or the final flush fails during render, render stops
\* there and returns an error, the frame buffer is what it was before the
\* call, and run returns that error: it takes no further step.
C6_RenderFailure ==
    [][/\ (pc = "render" /\ stdout'.result = "Err") =>
             /\ pc' = "failed"
             /\ frame_buffer' = frame_buffer
             /\ Len(stdout'.ops) < Len(RenderOps(frame_buffer))
             /\ stdout'.ops = SubSeq(RenderOps(frame_buffer), 1, Len(stdout'.ops))
       /\ pc # "failed"
      ]_vars

\* run has returned the error of a render whose final flush failed, after
\* every cell of a frame of three rows was printed
C6_Witness ==
    /\ pc = "failed"
    /\ stdout.result = "Err"
    /\ frame_buffer.height = 3
    /\ Len(stdout.ops) = Len(RenderOps(frame_buffer)) - 1
    /\ CountWhere(stdout.ops, "Print") = frame_buffer.width * 3 + 2

\* what one iteration draws on a buffer of fb's size that holds nothing else
FreshFrame(fb) ==
    DrawFpsCounter(
        RenderFrame(Clear(FrameBufferNew(fb.width, fb.height)), player, map),
        frame_time)

\* the order of the steps of one iteration; the other values of pc end run
StepOrder ==
    {<<"size", "poll">>, <<"poll", "clear">>, <<"clear", "raycast">>,
     <<"raycast", "fps">>, <<"fps", "render">>, <<"render", "size">>}

\* C10: every iteration takes its steps in the order resize, input, clear,
\* raycast, FPS overlay, flush; so what is flushed is the clear and the
\* redraw of this iteration on the current size, and holds nothing written
\* in an earlier frame or before a resize.
C10_FlushIsFresh ==
    /\ [](pc = "render" => frame_buffer = FreshFrame(frame_buffer))
    /\ [][/\ pc' # pc =>
                \/ <<pc, pc'>> \in StepOrder
                \/ pc' \in {"exited", "failed", "panic"}
          /\ (pc = "size" /\ pc' = "poll") =>
                /\ Len(frame_buffer'.buffer) = frame_buffer'.width * frame_buffer'.height
          /\ (pc = "render" /\ stdout'.result = "Ok") =>
                stdout'.ops = RenderOps(FreshFrame(frame_buffer))
         ]_vars

\* a frame about to be flushed, a wall stripe and the overlay drawn on it,
\* after the previous frame was flushed at another size
C10_Witness ==
    /\ pc = "render"
    /\ stdout.result = "Ok"
    /\ CountWhere(stdout.ops, "Print") = 1
    /\ frame_buffer.width = 2 /\ frame_buffer.height = 3
    /\ player # PlayerNew
    /\ Cell(frame_buffer, 0, 0) = <<" ", White, FpsBg>>
    /\ Cell(frame_buffer, 1, 1)[1] = "FULL"
    /\ Cell(frame_buffer, 1, 2) = <<" ", Reset, FloorBg>>

----------------------------------------------------------------------------
(* Engine::handle_input alone, on every map and start: SpecMove *)

\* the frame times of SpecMove: those of the engine, and one whose move is
\* exact along a direction of cosine 3/5 as well
MoveTimes == FrameTimes \cup {MoveTime(5)}

\* the move of frame time ft along p's direction is a whole number of
\* 1 / PosUnit on both axes
ExactMove(p, ft) ==
    /\ (p.direction.x * ft.move) % VecUnit = 0
    /\ (p.direction.y * ft.move) % VecUnit = 0

\* a player in an Empty cell of map m, facing any of eight ways
MovePlayers(m) == {p \in CastPlayers(m) : CellOf(m, p) = "Empty"}

MoveInit ==
    /\ map \in CastMaps
    /\ player \in MovePlayers(map)
    /\ frame_buffer = FrameBufferNew(1, 1)
    /\ stdout = NoOutput
    /\ nops = 0
    /\ lastop = NoCall
    /\ pc = "poll"
    /\ col = 0
    /\ ray = NoRay
    /\ hits = <<>>
    /\ frame_time = ZeroTime

\* handle_input(key, ft) for a key that goes on; at most MaxOps keys in a run
KeyPress(key, ft) ==
    /\ nops < MaxOps
    /\ nops' = nops + 1
    /\ Exact(key, ft)
    /\ ExactMove(player, ft)
    /\ player' = HandleInput(player, map, key, ft).player
    /\ UNCHANGED <<frame_buffer, stdout, lastop, map, pc, col, ray, hits, frame_time>>

Forward == \E key \in {"w", "Up"}, ft \in MoveTimes : KeyPress(key, ft)
Backward == \E key \in {"s", "Down"}, ft \in MoveTimes : KeyPress(key, ft)
Turn == \E key \in {"Right", "d", "Left", "a"}, ft \in MoveTimes : KeyPress(key, ft)

MoveNext == Forward \/ Backward \/ Turn

SpecMove == MoveInit /\ [][MoveNext]_vars

\* C11: a player who starts in an Empty cell is in an Empty cell after any
\* sequence of forward, backward and rotate keys: the cell of the position,
\* each coordinate truncated to an integer, is Empty.
C11_StaysInEmpty == CellOf(map, player) = "Empty"

====
